---- MODULE Spec2Model ----
(***************************************************************************)
(* Trails REST API (server.js): Trails, Trailheads, their bidirectional    *)
(* relation arrays, ownership by verified subject, kept in a document      *)
(* store.  Every request is an async handler; its awaits on the store are  *)
(* the points at which other requests' store calls interleave.  A step of  *)
(* the model is the handler code that runs up to and including one store   *)
(* call (code before its first store call touches request-local data       *)
(* only).  Every store call may fail; the handlers log and continue.       *)
(***************************************************************************)
EXTENDS Integers, Sequences, FiniteSets, TLC

VARIABLES
  datastore,   \* the document store: key <<kind, id>> |-> entity data
  nextId,      \* kind |-> the last id the store assigned for that kind
  reqs,        \* request slot |-> the handler running in it, or Idle
  issued,      \* number of requests received so far
  failures,    \* number of store calls that failed so far
  response,    \* the response the last step sent, NoResponse if it sent none
  hist         \* what the finished requests did (observed by the properties)

vars == <<datastore, nextId, reqs, issued, failures, response, hist>>

----------------------------------------------------------------------------
(* Bounds of the model *)

MaxTrails == 2          \* Trail ids the store assigns
MaxTrailheads == 2      \* Trailhead ids the store assigns
InitTrails == 1         \* Trails the store holds when the server starts
InitTrailheads == 1     \* Trailheads the store holds when the server starts
MaxInFlight == 2        \* requests handled concurrently
MaxRequests == 3        \* requests received in one behaviour
MaxStoreFailures == 1   \* store calls that fail in one behaviour

----------------------------------------------------------------------------
(* Strings that the code takes apart are sequences of characters *)

Digits == <<"0", "1", "2", "3", "4", "5", "6", "7", "8", "9">>

IsDigit(c) == \E i \in 1..10 : Digits[i] = c

DigitVal(c) == (CHOOSE i \in 1..10 : Digits[i] = c) - 1

NaN == -1

\* String(n) for a non-negative integer: the decimal form the store's key ids have
RECURSIVE ToStr(_)
ToStr(n) == IF n < 10 THEN <<Digits[n + 1]>>
            ELSE ToStr(n \div 10) \o <<Digits[(n % 10) + 1]>>

\* the value of the longest prefix of digits, NaN when the string starts with none
RECURSIVE ParseDigits(_, _)
ParseDigits(s, acc) ==
  IF s = <<>> \/ ~IsDigit(Head(s)) THEN acc
  ELSE ParseDigits(Tail(s), acc * 10 + DigitVal(Head(s)))

parseInt(s) == IF s = <<>> \/ ~IsDigit(Head(s)) THEN NaN ELSE ParseDigits(s, 0)

\* Array.prototype.includes / filter on sequences
Includes(arr, v) == \E i \in 1..Len(arr) : arr[i] = v

FilterOut(arr, v) == SelectSeq(arr, LAMBDA x : x # v)

----------------------------------------------------------------------------
(* Program constants *)

URL == "https://trails-api.wl.r.appspot.com/"

TRAIL == [name |-> "Trail", URL |-> "trails/",
          requiredAttributes |-> <<"name", "length", "difficulty">>,
          otherAttributes |-> <<"trailheads">>,
          protected |-> TRUE]

\* Trailheads as a protected type: what the open routes are compared against
GuardedTrailhead == [name |-> "Trailhead", URL |-> "trailheads/",
                     requiredAttributes |-> <<"name", "location", "fee">>,
                     otherAttributes |-> <<"trails">>,
                     protected |-> TRUE]

TRAILHEAD == [name |-> "Trailhead", URL |-> "trailheads/",
              requiredAttributes |-> <<"name", "location", "fee">>,
              otherAttributes |-> <<"trails">>,
              protected |-> FALSE]

USER == [name |-> "User", URL |-> "users/",
         requiredAttributes |-> <<"firstName", "lastName", "userId">>,
         otherAttributes |-> <<>>,
         protected |-> FALSE]

\* the types with entity routes, and the types with a collection route
Types == {TRAIL, TRAILHEAD}

Collections == {TRAIL, TRAILHEAD, USER}

RESULTS_PER_PAGE == 5

Range(s) == {s[i] : i \in 1..Len(s)}

\* a result that carries Forbidden whatever the handler has done
Refusal(code, data) == [code |-> 403, data |-> data]

\* result objects
Result(code, data) == [code |-> code, data |-> data]

ErrorData(msg) == [error |-> msg]

attributeMissingError == Result(400, ErrorData("missing attribute"))
userNotAuthenticatedError == Result(401, ErrorData("not authenticated"))
forbiddenError == Result(403, ErrorData("forbidden"))
alreadyExistsError == Result(403, ErrorData("already exists"))
relationshipDoesNotExistError == Result(403, ErrorData("relationship does not exist"))
\* a success without content: what the result for an entity that is not
\* stored is compared against
emptySuccess == Result(204, [k \in {} |-> ""])

doesNotExistError == Result(404, ErrorData("does not exist"))
methodNotAllowedError == Result(405, ErrorData("method not allowed"))
acceptTypeError == Result(406, ErrorData("accept type"))

NoContent == [none |-> TRUE]

----------------------------------------------------------------------------
(* Request inputs *)

Subjects == {"u1", "u2"}

\* an id token names a subject and carries a signature Google accepts or not;
\* NoToken is the empty string
NoToken == [sub |-> "", sig |-> ""]

IdToken(sub, sig) == [sub |-> sub, sig |-> sig]

\* the Authorization header: absent, or an optional "Bearer " and a token
Authorization(defined, scheme, token) ==
  [defined |-> defined, scheme |-> scheme, token |-> token]

Authorizations ==
  { Authorization(FALSE, "", NoToken),                       \* no header
    Authorization(TRUE, "", NoToken),                        \* ''
    Authorization(TRUE, "Bearer ", IdToken("u1", "good")),
    Authorization(TRUE, "", IdToken("u2", "good")),
    Authorization(TRUE, "Bearer ", IdToken("u1", "forged")) }

Accepts == {"*/*", "application/json", "text/html"}

\* every Authorization under application/json; the other Accept values with
\* no token and with a good one
Headers ==
  {h \in [accept : Accepts, authorization : Authorizations] :
     \/ h.accept = "application/json"
     \/ h.authorization \in {Authorization(FALSE, "", NoToken),
                             Authorization(TRUE, "Bearer ", IdToken("u1", "good"))}}

Merge(f, g) == [k \in DOMAIN f \cup DOMAIN g |-> IF k \in DOMAIN g THEN g[k] ELSE f[k]]

EmptyObject == [k \in {} |-> ""]

\* keys a body may carry besides the required attributes, with a junk value
ExtraKeys == {"trailheads", "trails", "userId", "id"}

ExtraValue(key) == IF key \in {"trailheads", "trails"} THEN <<<<"9">>>> ELSE "u2"

\* a complete body; only the first attribute (name) varies, to keep the store small
FullBody(type, v) ==
  [a \in Range(type.requiredAttributes) |-> IF a = type.requiredAttributes[1] THEN v ELSE "a"]

\* request bodies for a type: complete ones, one of them with all the extra
\* keys as well, and bodies with one attribute or none
Bodies(type) ==
  { FullBody(type, "a"),
    FullBody(type, "b"),
    Merge(FullBody(type, "b"), [k \in ExtraKeys |-> ExtraValue(k)]),
    [a \in {type.requiredAttributes[1]} |-> "b"],
    [a \in {type.requiredAttributes[2]} |-> "a"],
    EmptyObject }

MaxIds(type) == IF type = TRAIL THEN MaxTrails ELSE MaxTrailheads

\* path ids: the decimal form of every id, and the first id once more with a
\* leading zero (parseInt reads "01" as 1)
PathIds(type) == {ToStr(n) : n \in 1..MaxIds(type)} \cup {<<"0">> \o ToStr(1)}

----------------------------------------------------------------------------
(* Identity verification and helpers *)

\* a ticket of verifyIdToken; verifyUser returns false (ok = FALSE) instead
Ticket(ok, sub) == [ok |-> ok, payload |-> [sub |-> sub]]

\* a check that takes the subject a token names on trust: what the
\* verification of the token is compared against
verifyUnsigned(authorization, up) ==
  IF ~authorization.defined \/ authorization.token = NoToken
  THEN Ticket(FALSE, "")
  ELSE Ticket(TRUE, authorization.token.sub)

\* `up`: the verification call reaches Google and Google answers
verifyUser(authorization, up) ==
  IF ~authorization.defined
       \/ (authorization.scheme = "" /\ authorization.token = NoToken)
  THEN Ticket(FALSE, "")
  ELSE LET idToken == authorization.token   \* after slice(7) of "Bearer "
       IN  IF up /\ idToken # NoToken /\ idToken.sig = "good"
           THEN Ticket(TRUE, idToken.sub)
           ELSE Ticket(FALSE, "")

\* a gate that lets every Accept header through: what the order of the
\* checks is compared against
acceptTypeIsAny(headers) == FALSE

acceptTypeIsNotJSON(headers) ==
  headers.accept # "*/*" /\ headers.accept # "application/json"

\* URL + type.URL + id
makeSelfURL(id, type) == <<URL, type.URL, id>>

\* an entity as the store returns it: the data and the key (Datastore.KEY);
\* NoEntity stands for null / undefined
Entity(key, data) == [key |-> key, data |-> data]

NoEntity == Entity(0, EmptyObject)

Found(entity) == entity.key # 0

Key(type, id) == <<type.name, id>>

\* entity[Datastore.KEY].id: the store hands ids out as decimal strings
KeyId(entity) == ToStr(entity.key)

\* the keys the store can hold, and a document slot of the store
AllKeys == UNION {{Key(t, i) : i \in 1..MaxIds(t)} : t \in Types}

Doc(present, data) == [present |-> present, data |-> data]

NoDoc == Doc(FALSE, EmptyObject)

Exists(ds, key) == key \in AllKeys /\ ds[key].present

\* a lookup by key alone, without the filter on the owner: what the ownership
\* property is compared against
getEntityOfAnyOwner(ds, id, type, userId, ok) ==
  LET key == Key(type, parseInt(id))
  IN  IF ok /\ Exists(ds, key) THEN Entity(key[2], ds[key].data) ELSE NoEntity

\* a lookup that answers from the store even when the call has failed
getEntityDespiteFailure(ds, id, type, userId, ok) ==
  LET key == Key(type, parseInt(id))
  IN  IF Exists(ds, key) /\ (userId = "" \/ ds[key].data.userId = userId)
      THEN Entity(key[2], ds[key].data) ELSE NoEntity

\* `ok`: the store call succeeds; a failed call throws into the caller's catch,
\* which logs and leaves undefined
getEntityFromDatastore(ds, id, type, userId, ok) ==
  LET key == Key(type, parseInt(id))
  IN  IF ~ok THEN NoEntity
      ELSE IF userId # ""
      THEN IF Exists(ds, key) /\ "userId" \in DOMAIN ds[key].data
                /\ ds[key].data.userId = userId
           THEN Entity(key[2], ds[key].data)
           ELSE NoEntity
      ELSE IF Exists(ds, key) THEN Entity(key[2], ds[key].data) ELSE NoEntity

makeTrailFormatJSON(trailEntity) ==
  [name |-> trailEntity.data.name,
   length |-> trailEntity.data.length,
   difficulty |-> trailEntity.data.difficulty,
   trailheads |-> trailEntity.data.trailheads,
   id |-> KeyId(trailEntity),
   userId |-> trailEntity.data.userId,
   self |-> makeSelfURL(KeyId(trailEntity), TRAIL)]

makeTrailheadFormatJSON(trailheadEntity) ==
  [name |-> trailheadEntity.data.name,
   location |-> trailheadEntity.data.location,
   fee |-> trailheadEntity.data.fee,
   trails |-> trailheadEntity.data.trails,
   id |-> KeyId(trailheadEntity),
   self |-> makeSelfURL(KeyId(trailheadEntity), TRAILHEAD)]

makeUserFormatJSON(userEntity) ==
  [firstName |-> userEntity.data.firstName,
   lastName |-> userEntity.data.lastName,
   userId |-> userEntity.data.userId,
   id |-> KeyId(userEntity),
   self |-> makeSelfURL(KeyId(userEntity), TRAILHEAD)]

makeResponseByType(type, entity) ==
  IF type.name = "Trail" THEN makeTrailFormatJSON(entity)
  ELSE IF type.name = "Trailhead" THEN makeTrailheadFormatJSON(entity)
  ELSE makeUserFormatJSON(entity)

\* an update that the store never applies
UpdateDropped(ds, type, entity, ok) == ds

\* datastore.update: replaces the data of an existing entity; fails (and the
\* caller logs) when the call fails or no entity has the key
Update(ds, type, entity, ok) ==
  IF ok /\ Exists(ds, Key(type, entity.key))
  THEN [ds EXCEPT ![Key(type, entity.key)] = Doc(TRUE, entity.data)]
  ELSE ds

\* datastore.delete
Delete(ds, type, entity, ok) ==
  IF ok /\ Key(type, entity.key) \in AllKeys
  THEN [ds EXCEPT ![Key(type, entity.key)] = NoDoc]
  ELSE ds

\* datastore.save under a new key
Save(ds, type, id, data) == [ds EXCEPT ![Key(type, id)] = Doc(TRUE, data)]

\* the most entities of one type a listed store holds
MaxListed == 11

\* a set of ids in the order of the keys
RECURSIVE Sorted(_)
Sorted(S) ==
  IF S = {} THEN <<>>
  ELSE LET least == CHOOSE x \in S : \A y \in S : x <= y
       IN  <<least>> \o Sorted(S \ {least})

\* a query without the filter on the owner: what the scope of a list is
\* compared against
createQueryOfAll(ds, type, userId) ==
  LET ids == Sorted({k[2] : k \in {k \in DOMAIN ds : k[1] = type.name /\ ds[k].present}})
  IN  [i \in 1..Len(ids) |-> Entity(ids[i], ds[Key(type, ids[i])].data)]

\* datastore.createQuery(type.name), with .filter('userId', '=', userId) when
\* userId is set: the entities that match, in the order of the keys
createQuery(ds, type, userId) ==
  LET keys == {k \in DOMAIN ds :
                 /\ k[1] = type.name
                 /\ ds[k].present
                 /\ userId # "" => /\ "userId" \in DOMAIN ds[k].data
                                   /\ ds[k].data.userId = userId}
      ids == Sorted({k[2] : k \in keys})
  IN  [i \in 1..Len(ids) |-> Entity(ids[i], ds[Key(type, ids[i])].data)]

\* a cursor of the store names a position in the results of a query; as a
\* string it is base64 text, which may hold "+", "/" and "="
CursorOf(position) == <<"c">> \o ToStr(position) \o <<"+", "/", "=">>

Positions == 0..(MaxListed + 1)

\* the position a cursor names (-1: not a cursor of the store)
PositionOf(cursor) ==
  IF \E n \in Positions : CursorOf(n) = cursor
  THEN CHOOSE n \in Positions : CursorOf(n) = cursor
  ELSE -1

Min(a, b) == IF a < b THEN a ELSE b

\* a store that never reports more results: what the next link is compared
\* against
NoMoreResults(all, position, limit) == {"NO_MORE_RESULTS"}

\* what the store may report as info.moreResults for a page of `limit`
\* results starting at `position` out of `all`: results beyond the page are
\* reported, a page that falls short of the limit ends the results, and a
\* page that exactly exhausts them may be reported either way
MoreResults(all, position, limit) ==
  IF position + limit < Len(all) THEN {"MORE_RESULTS_AFTER_LIMIT"}
  ELSE IF position + limit = Len(all)
  THEN {"MORE_RESULTS_AFTER_LIMIT", "NO_MORE_RESULTS"}
  ELSE {"NO_MORE_RESULTS"}

\* datastore.runQuery(query.limit(limit).start(cursor)): [items, info]
runQuery(all, cursor, limit, moreResults) ==
  LET position == IF cursor = <<>> THEN 0 ELSE PositionOf(cursor)
      items == SubSeq(all, position + 1, Min(position + limit, Len(all)))
  IN  [items |-> items,
       info |-> [moreResults |-> moreResults,
                 endCursor |-> CursorOf(position + Len(items))]]

\* a cursor put into the link as it is: what the encoding is compared against
verbatim(str) == str

\* encodeURIComponent: letters and digits stay, the other characters of a
\* cursor are percent-encoded
Escaped(c) ==
  IF c = "+" THEN <<"%", "2", "B">>
  ELSE IF c = "/" THEN <<"%", "2", "F">>
  ELSE IF c = "=" THEN <<"%", "3", "D">>
  ELSE IF c = " " THEN <<"%", "2", "0">>
  ELSE IF c = "%" THEN <<"%", "2", "5">>
  ELSE <<c>>

RECURSIVE encodeURIComponent(_)
encodeURIComponent(str) ==
  IF str = <<>> THEN <<>> ELSE Escaped(Head(str)) \o encodeURIComponent(Tail(str))

\* req.query.nextPage: the query string parser turns "+" into a space and
\* decodes the percent-encoded characters
RECURSIVE QueryDecode(_)
QueryDecode(str) ==
  IF str = <<>> THEN <<>>
  ELSE IF Head(str) = "+" THEN <<" ">> \o QueryDecode(Tail(str))
  ELSE IF Head(str) = "%" /\ Len(str) >= 3
          /\ \E c \in {"+", "/", "=", " ", "%"} : Escaped(c) = SubSeq(str, 1, 3)
  THEN <<CHOOSE c \in {"+", "/", "=", " ", "%"} : Escaped(c) = SubSeq(str, 1, 3)>>
       \o QueryDecode(SubSeq(str, 4, Len(str)))
  ELSE <<Head(str)>> \o QueryDecode(Tail(str))

\* URL + type.URL + "?nextPage=" + encodedCursor
makeNextPageURL(type, cursor) ==
  <<URL, type.URL, "?nextPage=", encodeURIComponent(cursor)>>

TypeOf(name) ==
  IF name = "Trail" THEN TRAIL ELSE IF name = "User" THEN USER ELSE TRAILHEAD

\* the type at the other end of a type's relation array
Counterpart(type) == IF type = TRAIL THEN TRAILHEAD ELSE TRAIL

----------------------------------------------------------------------------
(* Requests in flight, responses, and what the properties remember *)

NoHeaders == [accept |-> "", authorization |-> Authorization(FALSE, "", NoToken)]

\* A handler's locals: the request (op, type, path ids, headers, body), the
\* verified subject, the entities read, updatedEntity.data, and where
\* removeRelationships stands.  The last five fields are noted for the
\* properties only:
\*   failed:  a store call of this request has failed
\*   wrote:   a store call of this request has changed the store
\*   up:      Google answers this request's verification call
\*   owner:   the userId of the Trail the request addresses, when received
\*   again:   an assign received while its pair counted as assigned
\*   follows: a remove received right after the pair's assign ("assign") or
\*            right after its successful remove ("remove")
\*   trailhead: the Trailhead the request addresses was stored, when received
\*   query:   the nextPage parameter as the request line carries it
\*   page:    1 for a list request without nextPage, k + 1 for one that
\*            follows the next link of a page k, 0 for any other
\*   more, endCursor: what the store reported with the page of results
Idle == [op |-> "idle", type |-> "", pc |-> "idle", id |-> <<>>, id2 |-> <<>>,
         headers |-> NoHeaders, body |-> EmptyObject, sub |-> "",
         entity |-> NoEntity, entity2 |-> NoEntity, data |-> EmptyObject,
         casTodo |-> <<>>, casPc |-> "idle", casEntity |-> NoEntity,
         failed |-> FALSE, wrote |-> FALSE,
         up |-> TRUE, owner |-> "", again |-> FALSE, follows |-> "",
         trailhead |-> FALSE, query |-> <<>>, cursor |-> <<>>, page |-> 0,
         more |-> "", endCursor |-> <<>>]

Request(op, type, id, id2, headers, body, up) ==
  [Idle EXCEPT !.op = op, !.type = type.name, !.pc = "received", !.id = id,
               !.id2 = id2, !.headers = headers, !.body = body, !.up = up]

NoResponse == [op |-> "none", type |-> "", id |-> <<>>, id2 |-> <<>>,
               headers |-> NoHeaders, body |-> EmptyObject, sub |-> "",
               code |-> 0, data |-> NoContent,
               failed |-> FALSE, wrote |-> FALSE,
               up |-> TRUE, owner |-> "", again |-> FALSE, follows |-> "",
               trailhead |-> FALSE, query |-> <<>>, cursor |-> <<>>,
               page |-> 0, more |-> "", endCursor |-> <<>>]

\* res.status(result.code).send(result.data) for request r
Response(r, sub, result) ==
  [op |-> r.op, type |-> r.type, id |-> r.id, id2 |-> r.id2,
   headers |-> r.headers, body |-> r.body, sub |-> sub,
   code |-> result.code, data |-> result.data,
   failed |-> r.failed, wrote |-> r.wrote,
   up |-> r.up, owner |-> r.owner, again |-> r.again, follows |-> r.follows,
   trailhead |-> r.trailhead, query |-> r.query, cursor |-> r.cursor,
   page |-> r.page, more |-> r.more, endCursor |-> r.endCursor]

Slots == 1..MaxInFlight

InFlight(s) == reqs[s].op # "idle"

Quiescent == \A s \in Slots : ~InFlight(s)

\* the Trail id and the Trailhead id a request addresses (0: none)
TrailOf(r) == IF r.type = "Trail" /\ r.op # "post" THEN parseInt(r.id) ELSE 0

TrailheadOf(r) ==
  IF r.op \in {"assign", "remove"} THEN parseInt(r.id2)
  ELSE IF r.type = "Trailhead" /\ r.op # "post" THEN parseInt(r.id) ELSE 0

Touches(r, pair) == TrailOf(r) = pair[1] \/ TrailheadOf(r) = pair[2]

PairOf(r) == <<parseInt(r.id), parseInt(r.id2)>>

\* the next links a list request r may have taken its nextPage from: those
\* of the pages the same caller was sent for the same collection
Followed(r) ==
  {l \in hist.links : l.type = r.type /\ l.headers = r.headers /\ l.query = r.query}

\* the request as received, with what the properties note about it
Noted(r) ==
  [r EXCEPT !.owner = IF Exists(datastore, Key(TRAIL, TrailOf(r)))
                      THEN datastore[Key(TRAIL, TrailOf(r))].data.userId ELSE "",
            !.again = r.op = "assign" /\ PairOf(r) \in hist.assigned,
            !.follows = IF r.op # "remove" THEN ""
                        ELSE IF PairOf(r) \in hist.removed THEN "remove"
                        ELSE IF PairOf(r) \in hist.fresh THEN "assign" ELSE "",
            !.trailhead = Exists(datastore, Key(TRAILHEAD, TrailheadOf(r))),
            !.page = IF r.op # "list" THEN 0
                     ELSE IF r.query = <<>> THEN 1
                     ELSE IF Followed(r) # {}
                     THEN (CHOOSE l \in Followed(r) : TRUE).page + 1 ELSE 0]

\* nothing remembered yet
NoHist == [serial |-> TRUE, assigned |-> {}, fresh |-> {}, removed |-> {},
           links |-> {}]

\* a newly received request r ends what the properties remember about the
\* pairs it touches: a remove or delete ends `assigned`, any request ends
\* `fresh` and `removed`; `serial` holds while no two requests have overlapped
HistOnReceive(h, r) ==
  [serial |-> h.serial /\ Quiescent,
   assigned |-> IF r.op \in {"remove", "delete"}
                THEN {p \in h.assigned : ~Touches(r, p)} ELSE h.assigned,
   fresh |-> {p \in h.fresh : ~Touches(r, p)},
   removed |-> {p \in h.removed : ~Touches(r, p)},
   links |-> h.links]

\* ... and the same for the requests in flight
OthersOnReceive(rs, r) ==
  [s \in Slots |->
     [rs[s] EXCEPT
        !.again = @ /\ ~(r.op \in {"remove", "delete"} /\ rs[s].op = "assign"
                          /\ Touches(r, PairOf(rs[s]))),
        !.follows = IF rs[s].op = "remove" /\ Touches(r, PairOf(rs[s]))
                    THEN "" ELSE @]]

\* a response adds to what the properties remember
HistOnResponse(h, resp) ==
  LET pair == <<parseInt(resp.id), parseInt(resp.id2)>>
  IN  IF resp.op = "assign" /\ resp.code = 204
      THEN [h EXCEPT !.assigned = @ \cup {pair}, !.fresh = @ \cup {pair}]
      ELSE IF resp.op = "remove" /\ resp.code = 204 /\ resp.follows = "assign"
      THEN [h EXCEPT !.removed = @ \cup {pair}]
      ELSE IF resp.op = "list" /\ resp.code = 200 /\ resp.page > 0
              /\ "next" \in DOMAIN resp.data
      THEN [h EXCEPT !.links = @ \cup {[type |-> resp.type, headers |-> resp.headers,
                                         query |-> resp.data.next[4],
                                         page |-> resp.page,
                                         endCursor |-> resp.endCursor]}]
      ELSE h

\* a store call fails only while the bound on failures allows it
StoreCall(ok) ==
  /\ ~ok => failures < MaxStoreFailures
  /\ failures' = IF ok THEN failures ELSE failures + 1

\* the request r after the store call of the current step
Mark(r) == [r EXCEPT !.failed = @ \/ failures' # failures,
                     !.wrote = @ \/ datastore' # datastore]

\* a new request takes the first idle slot
Receive(s) ==
  /\ response = NoResponse
  /\ issued < MaxRequests
  /\ ~InFlight(s)
  /\ \A t \in 1..(s - 1) : InFlight(t)
  /\ issued' = issued + 1

\* the handler of r returns `result` after its first store call (or before
\* it): the slot stays idle
Return(r, sub, result) ==
  /\ response' = Response(Mark(Noted(r)), sub, result)
  /\ reqs' = OthersOnReceive(reqs, r)
  /\ hist' = HistOnResponse(HistOnReceive(hist, r), Response(Noted(r), sub, result))

\* the handler of r awaits its next store call in slot s
Suspend(s, r) ==
  /\ response' = NoResponse
  /\ reqs' = [OthersOnReceive(reqs, r) EXCEPT ![s] = Mark(Noted(r))]
  /\ hist' = HistOnReceive(hist, r)

\* the handler in slot s runs on after the store call it awaited
Resume(s, op, pc) ==
  /\ response = NoResponse
  /\ reqs[s].op \in op
  /\ reqs[s].pc = pc

\* the handler in slot s returns `result`
Finish(s, result) ==
  /\ response' = Response(Mark(reqs[s]), reqs[s].sub, result)
  /\ hist' = HistOnResponse(hist, Response(reqs[s], reqs[s].sub, result))

\* the handler of r, from a slot, returns `result`
Conclude(r, result) ==
  /\ response' = Response(Mark(r), r.sub, result)
  /\ hist' = HistOnResponse(hist, Response(r, r.sub, result))

\* the handler of r throws after its first store call: the route's promise
\* rejects and nothing is sent
Throw(r) ==
  /\ response' = NoResponse
  /\ reqs' = OthersOnReceive(reqs, r)
  /\ hist' = HistOnReceive(hist, r)

\* the handler in slot s goes on to its next store call
Continue(s, r) ==
  /\ response' = NoResponse
  /\ reqs' = [reqs EXCEPT ![s] = Mark(r)]
  /\ hist' = hist

Missing(type, body) ==
  \E i \in 1..Len(type.requiredAttributes) : type.requiredAttributes[i] \notin DOMAIN body

\* the whole object, with whatever further keys it has
PickAll(type, object) == object

Pick(type, object) == [a \in Range(type.requiredAttributes) |-> object[a]]

\* the entity postEntity builds: the owner (protected types), the required
\* attributes of the body, every other attribute an empty array
NewEntity(type, sub, body) ==
  LET owner == IF type.protected THEN [userId |-> sub] ELSE EmptyObject
      other == [a \in Range(type.otherAttributes) |-> <<>>]
  IN  Merge(Merge(owner, Pick(type, body)), other)

----------------------------------------------------------------------------
(* The handlers *)

\* getEntity: GET /trails/:trailId, GET /trailheads/:trailheadId
GetEntity(s, id, type, headers) ==
  /\ Receive(s)
  /\ \E up, ok \in BOOLEAN :
       LET r == Request("get", type, id, <<>>, headers, EmptyObject, up)
           userData == verifyUser(headers.authorization, up)
           early == acceptTypeIsNotJSON(headers) \/ (type.protected /\ ~userData.ok)
           sub == IF type.protected /\ ~acceptTypeIsNotJSON(headers)
                  THEN userData.payload.sub ELSE ""
           entity == getEntityFromDatastore(datastore, id, type, sub, ok)
           result ==
             IF acceptTypeIsNotJSON(headers) THEN acceptTypeError
             ELSE IF type.protected /\ ~userData.ok THEN userNotAuthenticatedError
             ELSE IF ~Found(entity)
             THEN IF type.protected THEN forbiddenError ELSE doesNotExistError
             ELSE Result(200, makeResponseByType(type, entity))
       IN  /\ (acceptTypeIsNotJSON(headers) \/ ~type.protected) => up
           /\ early => ok
           /\ StoreCall(ok)
           /\ UNCHANGED <<datastore, nextId>>
           /\ Return(r, sub, result)

\* postEntity: POST /trails, POST /trailheads
PostEntity(s, type, headers, body) ==
  /\ Receive(s)
  /\ \E up, ok \in BOOLEAN :
       LET r == Request("post", type, <<>>, <<>>, headers, body, up)
           userData == verifyUser(headers.authorization, up)
           checked == ~acceptTypeIsNotJSON(headers) /\ ~Missing(type, body)
           early == ~checked \/ (type.protected /\ ~userData.ok)
           sub == IF type.protected /\ checked THEN userData.payload.sub ELSE ""
           newEntity == NewEntity(type, sub, body)
           id == nextId[type.name] + 1
           \* key.id is set by a save that succeeds, and stays undefined otherwise
           keyId == IF ok THEN ToStr(id) ELSE <<"undefined">>
           result ==
             IF acceptTypeIsNotJSON(headers) THEN acceptTypeError
             ELSE IF Missing(type, body) THEN attributeMissingError
             ELSE IF type.protected /\ ~userData.ok THEN userNotAuthenticatedError
             ELSE Result(201, Merge(newEntity,
                                    [id |-> keyId, self |-> makeSelfURL(keyId, type)]))
       IN  /\ (~checked \/ ~type.protected) => up
           /\ early => ok
           /\ (~early /\ ok) => id <= MaxIds(type)
           /\ StoreCall(ok)
           /\ datastore' = IF ~early /\ ok THEN Save(datastore, type, id, newEntity)
                           ELSE datastore
           /\ nextId' = IF ~early /\ ok THEN [nextId EXCEPT ![type.name] = id] ELSE nextId
           /\ Return(r, sub, result)

\* putEntity up to its lookup: PUT /trails/:trailId, PUT /trailheads/:trailheadId
PutEntityLookup(s, id, type, headers, body) ==
  /\ Receive(s)
  /\ \E up, ok \in BOOLEAN :
       LET r == Request("put", type, id, <<>>, headers, body, up)
           userData == verifyUser(headers.authorization, up)
           checked == ~acceptTypeIsNotJSON(headers) /\ ~Missing(type, body)
           early == ~checked \/ (type.protected /\ ~userData.ok)
           sub == IF type.protected /\ checked THEN userData.payload.sub ELSE ""
           \* updatedEntity.data
           data == IF type.protected THEN Merge(Pick(type, body), [userId |-> sub])
                   ELSE Pick(type, body)
           entity == getEntityFromDatastore(datastore, id, type, sub, ok)
           result ==
             IF acceptTypeIsNotJSON(headers) THEN acceptTypeError
             ELSE IF Missing(type, body) THEN attributeMissingError
             ELSE IF type.protected /\ ~userData.ok THEN userNotAuthenticatedError
             ELSE IF type.protected THEN forbiddenError ELSE doesNotExistError
       IN  /\ (~checked \/ ~type.protected) => up
           /\ early => ok
           /\ StoreCall(ok)
           /\ UNCHANGED <<datastore, nextId>>
           /\ IF early \/ ~Found(entity)
              THEN Return(r, sub, result)
              ELSE Suspend(s, [r EXCEPT !.pc = "update", !.sub = sub,
                                        !.entity = entity, !.data = data])

\* putEntity from its update on
PutEntityUpdate(s) ==
  /\ Resume(s, {"put"}, "update")
  /\ \E ok \in BOOLEAN :
       LET r == reqs[s]
           type == TypeOf(r.type)
           entity == Entity(r.entity.key, Merge(r.entity.data, r.data))
           other == [a \in Range(type.otherAttributes) |-> entity.data[a]]
           data == Merge(Merge(r.data, [id |-> r.id, self |-> makeSelfURL(r.id, type)]),
                         other)
       IN  /\ StoreCall(ok)
           /\ datastore' = Update(datastore, type, entity, ok)
           /\ Finish(s, Result(200, data))
           /\ reqs' = [reqs EXCEPT ![s] = Idle]
           /\ UNCHANGED <<nextId, issued>>

\* patchEntity up to its lookup: PATCH /trails/:trailId, PATCH /trailheads/:trailheadId
PatchEntityLookup(s, id, type, headers, body) ==
  /\ Receive(s)
  /\ \E up, ok \in BOOLEAN :
       LET r == Request("patch", type, id, <<>>, headers, body, up)
           userData == verifyUser(headers.authorization, up)
           early == acceptTypeIsNotJSON(headers) \/ (type.protected /\ ~userData.ok)
           sub == IF type.protected /\ ~acceptTypeIsNotJSON(headers)
                  THEN userData.payload.sub ELSE ""
           entity == getEntityFromDatastore(datastore, id, type, sub, ok)
           result ==
             IF acceptTypeIsNotJSON(headers) THEN acceptTypeError
             ELSE IF type.protected /\ ~userData.ok THEN userNotAuthenticatedError
             ELSE IF type.protected THEN forbiddenError ELSE doesNotExistError
       IN  /\ (acceptTypeIsNotJSON(headers) \/ ~type.protected) => up
           /\ early => ok
           /\ StoreCall(ok)
           /\ UNCHANGED <<datastore, nextId>>
           /\ IF early \/ ~Found(entity)
              THEN Return(r, sub, result)
              ELSE Suspend(s, [r EXCEPT !.pc = "update", !.sub = sub, !.entity = entity])

\* patchEntity from its update on: the attributes of the body go into the
\* response (updatedEntity.data); the entity that is written is the one read
PatchEntityUpdate(s) ==
  /\ Resume(s, {"patch"}, "update")
  /\ \E ok \in BOOLEAN :
       LET r == reqs[s]
           type == TypeOf(r.type)
           entity == r.entity
           owner == IF type.protected THEN [userId |-> r.sub] ELSE EmptyObject
           patched == [a \in Range(type.requiredAttributes) |->
                         IF a \in DOMAIN r.body THEN r.body[a] ELSE entity.data[a]]
           other == [a \in Range(type.otherAttributes) |-> entity.data[a]]
           data == Merge(Merge(Merge(owner, patched),
                               [id |-> r.id, self |-> makeSelfURL(r.id, type)]), other)
       IN  /\ StoreCall(ok)
           /\ datastore' = Update(datastore, type, entity, ok)
           /\ Finish(s, Result(200, data))
           /\ reqs' = [reqs EXCEPT ![s] = Idle]
           /\ UNCHANGED <<nextId, issued>>

\* the relation array removeRelationships walks
Relations(entity, type) ==
  IF type = TRAIL THEN entity.data.trailheads ELSE entity.data.trails

\* deleteEntity up to its lookup and the (not awaited) call of
\* removeRelationships: DELETE /trails/:trailId, DELETE /trailheads/:trailheadId
DeleteEntityLookup(s, id, type, headers) ==
  /\ Receive(s)
  /\ \E up, ok \in BOOLEAN :
       LET r == Request("delete", type, id, <<>>, headers, EmptyObject, up)
           userData == verifyUser(headers.authorization, up)
           early == acceptTypeIsNotJSON(headers) \/ (type.protected /\ ~userData.ok)
           sub == IF type.protected /\ ~acceptTypeIsNotJSON(headers)
                  THEN userData.payload.sub ELSE ""
           entity == getEntityFromDatastore(datastore, id, type, sub, ok)
           result ==
             IF acceptTypeIsNotJSON(headers) THEN acceptTypeError
             ELSE IF type.protected /\ ~userData.ok THEN userNotAuthenticatedError
             ELSE IF type.protected THEN forbiddenError ELSE doesNotExistError
       IN  /\ (acceptTypeIsNotJSON(headers) \/ ~type.protected) => up
           /\ early => ok
           /\ StoreCall(ok)
           /\ UNCHANGED <<datastore, nextId>>
           /\ IF early \/ ~Found(entity)
              THEN Return(r, sub, result)
              ELSE Suspend(s, [r EXCEPT
                     !.pc = "delete", !.sub = sub, !.entity = entity,
                     !.casTodo = Relations(entity, type),
                     !.casPc = IF Relations(entity, type) = <<>> THEN "idle" ELSE "load"])

\* the slot of a delete is idle again once it has returned and its
\* removeRelationships has ended
Settled(r) == IF r.pc = "returned" /\ r.casPc = "idle" THEN Idle ELSE r

\* deleteEntity from datastore.delete on
DeleteEntityDelete(s) ==
  /\ Resume(s, {"delete"}, "delete")
  /\ \E ok \in BOOLEAN :
       LET r == reqs[s]
       IN  /\ StoreCall(ok)
           /\ datastore' = Delete(datastore, TypeOf(r.type), r.entity, ok)
           /\ Finish(s, Result(204, EmptyObject))
           /\ reqs' = [reqs EXCEPT ![s] = Settled([r EXCEPT !.pc = "returned"])]
           /\ UNCHANGED <<nextId, issued>>

\* removeRelationships: the lookup of the next related entity and the filter
\* of its array; with no entity (or a failed lookup) the function throws and
\* the rest of the loop is not run
RemoveRelationshipsLoad(s) ==
  /\ response = NoResponse
  /\ reqs[s].op = "delete" /\ reqs[s].casPc = "load"
  /\ \E ok \in BOOLEAN :
       LET r == reqs[s]
           type == TypeOf(r.type)
           other == getEntityFromDatastore(datastore, Head(r.casTodo),
                                           Counterpart(type), "", ok)
           filtered ==
             IF type = TRAIL
             THEN [other EXCEPT !.data.trails = FilterOut(@, KeyId(r.entity))]
             ELSE [other EXCEPT !.data.trailheads = FilterOut(@, KeyId(r.entity))]
       IN  /\ StoreCall(ok)
           /\ UNCHANGED <<datastore, nextId, issued>>
           /\ IF Found(other)
              THEN Continue(s, [r EXCEPT !.casPc = "update", !.casEntity = filtered])
              ELSE Continue(s, Settled([r EXCEPT !.casPc = "idle", !.casTodo = <<>>]))

\* removeRelationships: the update of the related entity
RemoveRelationshipsUpdate(s) ==
  /\ response = NoResponse
  /\ reqs[s].op = "delete" /\ reqs[s].casPc = "update"
  /\ \E ok \in BOOLEAN :
       LET r == reqs[s]
           rest == Tail(r.casTodo)
       IN  /\ StoreCall(ok)
           /\ datastore' = Update(datastore, Counterpart(TypeOf(r.type)), r.casEntity, ok)
           /\ Continue(s, Settled([r EXCEPT
                 !.casTodo = rest, !.casEntity = NoEntity,
                 !.casPc = IF rest = <<>> THEN "idle" ELSE "load"]))
           /\ UNCHANGED <<nextId, issued>>

\* assignTrailheadToTrail / removeTrailheadFromTrail up to the lookup of the trail
LoadTrail(s, op, trailId, trailheadId, headers) ==
  /\ Receive(s)
  /\ \E up, ok \in BOOLEAN :
       LET r == Request(op, TRAIL, trailId, trailheadId, headers, EmptyObject, up)
           userData == verifyUser(headers.authorization, up)
           early == acceptTypeIsNotJSON(headers) \/ ~userData.ok
           sub == IF acceptTypeIsNotJSON(headers) THEN "" ELSE userData.payload.sub
           trailEntity == getEntityFromDatastore(datastore, trailId, TRAIL, sub, ok)
           result == IF acceptTypeIsNotJSON(headers) THEN acceptTypeError
                     ELSE userNotAuthenticatedError
       IN  /\ acceptTypeIsNotJSON(headers) => up
           /\ early => ok
           /\ StoreCall(ok)
           /\ UNCHANGED <<datastore, nextId>>
           /\ IF early
              THEN Return(r, sub, result)
              ELSE Suspend(s, [r EXCEPT !.pc = "loadTrailhead", !.sub = sub,
                                        !.entity = trailEntity])

\* PUT /trails/:trailId/trailheads/:trailheadId
AssignLoadTrail(s, trailId, trailheadId, headers) ==
  LoadTrail(s, "assign", trailId, trailheadId, headers)

\* assignTrailheadToTrail: the lookup of the trailhead, the checks, the two push
AssignLoadTrailhead(s) ==
  /\ Resume(s, {"assign"}, "loadTrailhead")
  /\ \E ok \in BOOLEAN :
       LET r == reqs[s]
           trailEntity == r.entity
           trailheadEntity == getEntityFromDatastore(datastore, r.id2, TRAILHEAD, "", ok)
       IN  /\ StoreCall(ok)
           /\ UNCHANGED <<datastore, nextId, issued>>
           /\ IF ~Found(trailEntity)
              THEN Finish(s, forbiddenError) /\ reqs' = [reqs EXCEPT ![s] = Idle]
              ELSE IF ~Found(trailheadEntity)
              THEN Finish(s, doesNotExistError) /\ reqs' = [reqs EXCEPT ![s] = Idle]
              ELSE IF /\ Includes(trailEntity.data.trailheads, KeyId(trailheadEntity))
                      /\ Includes(trailheadEntity.data.trails, KeyId(trailEntity))
              THEN Finish(s, alreadyExistsError) /\ reqs' = [reqs EXCEPT ![s] = Idle]
              ELSE Continue(s, [r EXCEPT
                     !.pc = "updateTrail",
                     !.entity.data.trailheads = Append(@, KeyId(trailheadEntity)),
                     !.entity2 = [trailheadEntity EXCEPT
                                    !.data.trails = Append(@, KeyId(trailEntity))]])

\* DELETE /trails/:trailId/trailheads/:trailheadId
RemoveLoadTrail(s, trailId, trailheadId, headers) ==
  LoadTrail(s, "remove", trailId, trailheadId, headers)

\* removeTrailheadFromTrail: the lookup of the trailhead, the checks, the two
\* filters, which compare the array values with the ids as the path gives them
RemoveLoadTrailhead(s) ==
  /\ Resume(s, {"remove"}, "loadTrailhead")
  /\ \E ok \in BOOLEAN :
       LET r == reqs[s]
           trailEntity == r.entity
           trailheadEntity == getEntityFromDatastore(datastore, r.id2, TRAILHEAD, "", ok)
       IN  /\ StoreCall(ok)
           /\ UNCHANGED <<datastore, nextId, issued>>
           /\ IF ~Found(trailEntity)
              THEN Finish(s, forbiddenError) /\ reqs' = [reqs EXCEPT ![s] = Idle]
              ELSE IF ~Found(trailheadEntity)
              THEN Finish(s, doesNotExistError) /\ reqs' = [reqs EXCEPT ![s] = Idle]
              ELSE IF /\ ~Includes(trailEntity.data.trailheads, KeyId(trailheadEntity))
                      /\ ~Includes(trailheadEntity.data.trails, KeyId(trailEntity))
              THEN Finish(s, relationshipDoesNotExistError)
                   /\ reqs' = [reqs EXCEPT ![s] = Idle]
              ELSE Continue(s, [r EXCEPT
                     !.pc = "updateTrail",
                     !.entity.data.trailheads = FilterOut(@, r.id2),
                     !.entity2 = [trailheadEntity EXCEPT
                                    !.data.trails = FilterOut(@, r.id)]])

\* assign / remove: datastore.update(trailEntity)
UpdateTrail(s) ==
  /\ Resume(s, {"assign", "remove"}, "updateTrail")
  /\ \E ok \in BOOLEAN :
       /\ StoreCall(ok)
       /\ datastore' = Update(datastore, TRAIL, reqs[s].entity, ok)
       /\ Continue(s, [reqs[s] EXCEPT !.pc = "updateTrailhead"])
       /\ UNCHANGED <<nextId, issued>>

\* assign / remove: datastore.update(trailheadEntity), and the 204
UpdateTrailhead(s) ==
  /\ Resume(s, {"assign", "remove"}, "updateTrailhead")
  /\ \E ok \in BOOLEAN :
       /\ StoreCall(ok)
       /\ datastore' = Update(datastore, TRAILHEAD, reqs[s].entity2, ok)
       /\ Finish(s, Result(204, EmptyObject))
       /\ reqs' = [reqs EXCEPT ![s] = Idle]
       /\ UNCHANGED <<nextId, issued>>

\* getEntitiesPagination: GET /trails, GET /trailheads, GET /users, up to the
\* count query; `query` is the nextPage parameter of the request line.  A
\* count query that fails leaves results undefined, and results[0] throws.
GetEntitiesPagination(s, type, headers, query) ==
  /\ Receive(s)
  /\ \E up, ok \in BOOLEAN :
       LET nextPageCursor == QueryDecode(query)
           r == [Request("list", type, <<>>, <<>>, headers, EmptyObject, up)
                   EXCEPT !.query = query, !.cursor = nextPageCursor]
           userData == verifyUser(headers.authorization, up)
           early == acceptTypeIsNotJSON(headers) \/ (type.protected /\ ~userData.ok)
           sub == IF type.protected /\ ~acceptTypeIsNotJSON(headers)
                  THEN userData.payload.sub ELSE ""
           count == Len(createQuery(datastore, type, sub))
           self == IF nextPageCursor # <<>>
                   THEN makeNextPageURL(type, nextPageCursor)
                   ELSE makeSelfURL(<<>>, type)
       IN  /\ (acceptTypeIsNotJSON(headers) \/ ~type.protected) => up
           /\ early => ok
           /\ StoreCall(ok)
           /\ UNCHANGED <<datastore, nextId>>
           /\ IF acceptTypeIsNotJSON(headers) THEN Return(r, sub, acceptTypeError)
              ELSE IF type.protected /\ ~userData.ok
              THEN Return(r, sub, userNotAuthenticatedError)
              ELSE IF ~ok THEN Throw(r)
              ELSE Suspend(s, [r EXCEPT !.pc = "page", !.sub = sub,
                                        !.data = [count |-> count, self |-> self]])

\* getEntitiesPagination, the page query: a query that fails (the call
\* itself, or a start cursor the store does not know) leaves results
\* undefined, and the response keeps count and self only
GetEntitiesPage(s) ==
  /\ Resume(s, {"list"}, "page")
  /\ \E ok \in BOOLEAN :
       LET r == reqs[s]
           type == TypeOf(r.type)
           all == createQuery(datastore, type, r.sub)
           position == IF r.cursor = <<>> THEN 0 ELSE PositionOf(r.cursor)
           results == ok /\ position # -1
       IN  /\ StoreCall(ok)
           /\ UNCHANGED <<datastore, nextId, issued>>
           /\ \E moreResults \in IF results
                                  THEN MoreResults(all, position, RESULTS_PER_PAGE)
                                  ELSE {""} :
                LET page == runQuery(all, r.cursor, RESULTS_PER_PAGE, moreResults)
                    items == [i \in 1..Len(page.items) |->
                                makeResponseByType(type, page.items[i])]
                    next == IF page.info.moreResults # "NO_MORE_RESULTS"
                            THEN [next |-> makeNextPageURL(type, page.info.endCursor)]
                            ELSE EmptyObject
                    data == IF results
                            THEN Merge(Merge(r.data, [items |-> items]), next)
                            ELSE r.data
                    told == IF results
                            THEN [r EXCEPT !.more = page.info.moreResults,
                                           !.endCursor = page.info.endCursor]
                            ELSE r
                IN  Conclude(told, Result(200, data))
           /\ reqs' = [reqs EXCEPT ![s] = Idle]

\* app.all('/trails'), app.all('/trailheads'), app.all('/users'): any other
\* method on a collection path; the headers are not looked at
MethodNotAllowed(s, type, headers) ==
  /\ Receive(s)
  /\ failures' = failures
  /\ UNCHANGED <<datastore, nextId>>
  /\ Return(Request("other", type, <<>>, <<>>, headers, EmptyObject, TRUE),
            "", methodNotAllowedError)

----------------------------------------------------------------------------
(* The specification *)

\* res.status(result.code).send(result.data): the route sends what the
\* handler returned, in the same turn of the event loop
Send ==
  /\ response # NoResponse
  /\ response' = NoResponse
  /\ UNCHANGED <<datastore, nextId, reqs, issued, failures, hist>>

\* The store outlives the server.  The server starts on a store earlier POST
\* requests of u1 filled: Trails 1..InitTrails and Trailheads
\* 1..InitTrailheads, as postEntity saves them.
SeedBody(type) == FullBody(type, "a")

Seeded(key) ==
  \/ key[1] = "Trail" /\ key[2] <= InitTrails
  \/ key[1] = "Trailhead" /\ key[2] <= InitTrailheads

Init ==
  /\ datastore = [k \in AllKeys |->
                    IF Seeded(k)
                    THEN Doc(TRUE, NewEntity(TypeOf(k[1]), "u1", SeedBody(TypeOf(k[1]))))
                    ELSE NoDoc]
  /\ nextId = [n \in {"Trail", "Trailhead"} |->
                 IF n = "Trail" THEN InitTrails ELSE InitTrailheads]
  /\ reqs = [s \in Slots |-> Idle]
  /\ issued = 0
  /\ failures = 0
  /\ response = NoResponse
  /\ hist = NoHist

\* every step of a handler after its first store call
Steps ==
  \/ \E s \in Slots : PutEntityUpdate(s)
  \/ \E s \in Slots : PatchEntityUpdate(s)
  \/ \E s \in Slots : DeleteEntityDelete(s)
  \/ \E s \in Slots : RemoveRelationshipsLoad(s)
  \/ \E s \in Slots : RemoveRelationshipsUpdate(s)
  \/ \E s \in Slots : AssignLoadTrailhead(s)
  \/ \E s \in Slots : RemoveLoadTrailhead(s)
  \/ \E s \in Slots : UpdateTrail(s)
  \/ \E s \in Slots : UpdateTrailhead(s)
  \/ Send

\* the requests of the owner u1, with complete bodies, and path ids in both forms
OwnerHeaders ==
  {[accept |-> "application/json",
    authorization |-> Authorization(TRUE, "Bearer ", IdToken("u1", "good"))]}

OwnerBodies(type) == {SeedBody(type)}

Next ==
  \/ \E s \in Slots, type \in Types :
       \E id \in PathIds(type), headers \in OwnerHeaders : GetEntity(s, id, type, headers)
  \/ \E s \in Slots, type \in Types :
       \E headers \in OwnerHeaders, body \in OwnerBodies(type) :
         PostEntity(s, type, headers, body)
  \/ \E s \in Slots, type \in Types :
       \E id \in PathIds(type), headers \in OwnerHeaders, body \in OwnerBodies(type) :
         PutEntityLookup(s, id, type, headers, body)
  \/ \E s \in Slots, type \in Types :
       \E id \in PathIds(type), headers \in OwnerHeaders, body \in OwnerBodies(type) :
         PatchEntityLookup(s, id, type, headers, body)
  \/ \E s \in Slots, type \in Types :
       \E id \in PathIds(type), headers \in OwnerHeaders :
         DeleteEntityLookup(s, id, type, headers)
  \/ \E s \in Slots, trailId \in PathIds(TRAIL), trailheadId \in PathIds(TRAILHEAD),
        headers \in OwnerHeaders : AssignLoadTrail(s, trailId, trailheadId, headers)
  \/ \E s \in Slots, trailId \in PathIds(TRAIL), trailheadId \in PathIds(TRAILHEAD),
        headers \in OwnerHeaders : RemoveLoadTrail(s, trailId, trailheadId, headers)
  \/ Steps

\* The relation between Trails and Trailheads under concurrent requests of
\* the owner and store failures
Spec == Init /\ [][Next]_vars

\* the path ids of the plain requests: the decimal forms
DecimalIds(type) == {ToStr(n) : n \in 1..MaxIds(type)}

NextCrud ==
  \/ /\ Quiescent
     /\ \E s \in Slots, type \in Types :
          \E id \in DecimalIds(type), headers \in Headers :
            GetEntity(s, id, type, headers)
  \/ /\ Quiescent
     /\ \E s \in Slots, type \in Types :
          \E headers \in Headers, body \in Bodies(type) :
            PostEntity(s, type, headers, body)
  \/ /\ Quiescent
     /\ \E s \in Slots, type \in Types :
          \E id \in DecimalIds(type), headers \in Headers, body \in Bodies(type) :
            PutEntityLookup(s, id, type, headers, body)
  \/ \E s \in Slots : PutEntityUpdate(s)
  \/ /\ Quiescent
     /\ \E s \in Slots, type \in Types :
          \E id \in DecimalIds(type), headers \in Headers, body \in Bodies(type) :
            PatchEntityLookup(s, id, type, headers, body)
  \/ \E s \in Slots : PatchEntityUpdate(s)
  \/ /\ Quiescent
     /\ \E s \in Slots, type \in Types :
          \E id \in DecimalIds(type), headers \in Headers :
            DeleteEntityLookup(s, id, type, headers)
  \/ \E s \in Slots : DeleteEntityDelete(s)
  \/ Send

\* Create, get, replace, patch and delete, one request at a time, with every
\* kind of header and body, on entities that have no relations
SpecCrud == Init /\ [][NextCrud]_vars

\* the Authorization headers the gates tell apart: none, '', good tokens of u1
\* and u2, a forged token, and text that is no token
GateAuthorizations ==
  { Authorization(FALSE, "", NoToken),
    Authorization(TRUE, "", NoToken),
    Authorization(TRUE, "Bearer ", IdToken("u1", "good")),
    Authorization(TRUE, "Bearer ", IdToken("u2", "good")),
    Authorization(TRUE, "Bearer ", IdToken("u1", "forged")),
    Authorization(TRUE, "Bearer ", IdToken("", "malformed")) }

\* every Authorization under application/json; text/html with no token and
\* with a good one
GateHeaders ==
  {h \in [accept : {"application/json", "text/html"}, authorization : GateAuthorizations] :
     \/ h.accept = "application/json"
     \/ h.authorization \in {Authorization(FALSE, "", NoToken),
                             Authorization(TRUE, "Bearer ", IdToken("u1", "good"))}}

\* a complete body that changes the entity, and a body without `name`
GateBodies(type) ==
  { FullBody(type, "b"),
    [a \in {type.requiredAttributes[2]} |-> "a"] }

NextGates ==
  \/ /\ Quiescent
     /\ \E s \in Slots, type \in Types :
          \E id \in DecimalIds(type), headers \in GateHeaders :
            GetEntity(s, id, type, headers)
  \/ /\ Quiescent
     /\ \E s \in Slots, type \in Types :
          \E headers \in GateHeaders, body \in GateBodies(type) :
            PostEntity(s, type, headers, body)
  \/ /\ Quiescent
     /\ \E s \in Slots, type \in Types :
          \E id \in DecimalIds(type), headers \in GateHeaders, body \in GateBodies(type) :
            PutEntityLookup(s, id, type, headers, body)
  \/ \E s \in Slots : PutEntityUpdate(s)
  \/ /\ Quiescent
     /\ \E s \in Slots, type \in Types :
          \E id \in DecimalIds(type), headers \in GateHeaders, body \in GateBodies(type) :
            PatchEntityLookup(s, id, type, headers, body)
  \/ \E s \in Slots : PatchEntityUpdate(s)
  \/ /\ Quiescent
     /\ \E s \in Slots, type \in Types :
          \E id \in DecimalIds(type), headers \in GateHeaders :
            DeleteEntityLookup(s, id, type, headers)
  \/ \E s \in Slots : DeleteEntityDelete(s)
  \/ \E s \in Slots : RemoveRelationshipsLoad(s)
  \/ \E s \in Slots : RemoveRelationshipsUpdate(s)
  \/ /\ Quiescent
     /\ \E s \in Slots, trailId \in DecimalIds(TRAIL), trailheadId \in DecimalIds(TRAILHEAD),
           headers \in GateHeaders : AssignLoadTrail(s, trailId, trailheadId, headers)
  \/ \E s \in Slots : AssignLoadTrailhead(s)
  \/ /\ Quiescent
     /\ \E s \in Slots, trailId \in DecimalIds(TRAIL), trailheadId \in DecimalIds(TRAILHEAD),
           headers \in GateHeaders : RemoveLoadTrail(s, trailId, trailheadId, headers)
  \/ \E s \in Slots : RemoveLoadTrailhead(s)
  \/ \E s \in Slots : UpdateTrail(s)
  \/ \E s \in Slots : UpdateTrailhead(s)
  \/ /\ Quiescent
     /\ \E s \in Slots, type \in Collections, headers \in GateHeaders :
          GetEntitiesPagination(s, type, headers, <<>>)
  \/ \E s \in Slots : GetEntitiesPage(s)
  \/ /\ Quiescent
     /\ \E s \in Slots, type \in Collections, headers \in GateHeaders :
          MethodNotAllowed(s, type, headers)
  \/ Send

\* Every route, one request at a time, called by the owner, by another user
\* and by callers the identity provider does not vouch for
SpecGates == Init /\ [][NextGates]_vars

\* A store to list: n Trails of u1 around one Trail of u2 (id 3), n
\* Trailheads and n Users, as postEntity saves them (Users are written to
\* the store by hand)
ListKeys == {Key(t, i) : t \in Collections, i \in 1..(MaxListed + 1)}

OthersTrail == 3

ListStore(n) ==
  LET mine == SubSeq(Sorted((1..(MaxListed + 1)) \ {OthersTrail}), 1, n)
  IN  [k \in ListKeys |->
         IF k[1] = "Trail" /\ k[2] = OthersTrail
         THEN Doc(TRUE, NewEntity(TRAIL, "u2", SeedBody(TRAIL)))
         ELSE IF k[1] = "Trail" /\ k[2] \in Range(mine)
         THEN Doc(TRUE, NewEntity(TRAIL, "u1", SeedBody(TRAIL)))
         ELSE IF k[1] = "Trailhead" /\ k[2] <= n
         THEN Doc(TRUE, NewEntity(TRAILHEAD, "", SeedBody(TRAILHEAD)))
         ELSE IF k[1] = "User" /\ k[2] <= n
         THEN Doc(TRUE, [firstName |-> "a", lastName |-> "a", userId |-> "u1"])
         ELSE NoDoc]

InitList ==
  /\ \E n \in 0..MaxListed : datastore = ListStore(n)
  /\ nextId = [n \in {"Trail", "Trailhead"} |-> MaxListed + 1]
  /\ reqs = [s \in Slots |-> Idle]
  /\ issued = 0
  /\ failures = 0
  /\ response = NoResponse
  /\ hist = NoHist

\* the callers of the lists: u1 and u2 with good tokens, no token, and an
\* Accept the API refuses
ListHeaders ==
  {[accept |-> "application/json", authorization |-> a] :
     a \in {Authorization(TRUE, "Bearer ", IdToken("u1", "good")),
            Authorization(TRUE, "Bearer ", IdToken("u2", "good")),
            Authorization(FALSE, "", NoToken)}}
  \cup {[accept |-> "text/html",
          authorization |-> Authorization(TRUE, "Bearer ", IdToken("u1", "good"))]}

\* the nextPage a caller sends: none, one taken from a next link received
\* earlier, or text that is no cursor
NextPages == {<<>>, <<"x">>} \cup {l.query : l \in hist.links}

NextList ==
  \/ /\ Quiescent
     /\ \E s \in Slots, type \in Collections :
          \E headers \in ListHeaders, query \in NextPages :
            GetEntitiesPagination(s, type, headers, query)
  \/ \E s \in Slots : GetEntitiesPage(s)
  \/ Send

\* Lists of a store that does not change, one request at a time
SpecList == InitList /\ [][NextList]_vars

----------------------------------------------------------------------------
(* Properties *)

\* the subject the identity provider verifies for a request ("": none)
Claimant(resp) ==
  IF /\ resp.up
     /\ resp.headers.authorization.defined
     /\ resp.headers.authorization.token.sig = "good"
  THEN resp.headers.authorization.token.sub
  ELSE ""

Acceptable(resp) == resp.headers.accept \in {"*/*", "application/json"}

Complete(resp) ==
  \A a \in Range(TypeOf(resp.type).requiredAttributes) : a \in DOMAIN resp.body

\* get, replace, patch or delete of a Trail by a verified subject who does not
\* own the Trail of that id
ByNonOwner(resp) ==
  /\ resp.type = "Trail"
  /\ resp.op \in {"get", "put", "patch", "delete"}
  /\ Claimant(resp) # ""
  /\ resp.owner # Claimant(resp)

\* the relation array of the stored entity under `key` holds the id n
Relates(key, n) ==
  /\ Exists(datastore, key)
  /\ Includes(datastore[key].data[TypeOf(key[1]).otherAttributes[1]], ToStr(n))

TrailKeys == {Key(TRAIL, i) : i \in 1..MaxIds(TRAIL)}

TrailheadKeys == {Key(TRAILHEAD, i) : i \in 1..MaxIds(TRAILHEAD)}

\* C1, as the code has it: get, replace, patch and delete of a Trail, called
\* with a valid claim whose subject does not own the Trail of that id, return
\* 403 once the gates before the ownership lookup are passed: 406 when the
\* Accept header does not allow JSON, then (replace only) 400 when a required
\* attribute is missing.  They never return 404 or a success code, also when
\* the Trail exists under another owner.
C1_ForbiddenAfterGates ==
  ByNonOwner(response) =>
    response.code = IF ~Acceptable(response) THEN 406
                    ELSE IF response.op = "put" /\ ~Complete(response) THEN 400
                    ELSE 403

\* u2 replaces, with a complete body, the Trail u1 owns, and gets 403
C1_ReplaceByOther ==
  /\ ByNonOwner(response)
  /\ response.op = "put"
  /\ response.owner = "u1"
  /\ Claimant(response) = "u2"
  /\ Acceptable(response)
  /\ Complete(response)
  /\ response.code = 403

\* C1, as the specification has it: get, replace, patch and delete of a Trail,
\* called with a valid claim whose subject does not own the Trail of that id,
\* always return 403.
C1_AlwaysForbidden == ByNonOwner(response) => response.code = 403

\* C2: whenever no request is in flight, a stored Trail T lists a stored
\* Trailhead H in T.trailheads exactly when H lists T in H.trails.
C2_EdgeSymmetry ==
  Quiescent =>
    \A t \in TrailKeys, h \in TrailheadKeys :
      (Exists(datastore, t) /\ Exists(datastore, h)) =>
        (Relates(t, h[2]) <=> Relates(h, t[2]))

\* C3: whenever assign(T, H) returns 204, the stored T.trailheads holds H's id
\* and the stored H.trails holds T's id.
C3_AssignStoresBothSides ==
  (response.op = "assign" /\ response.code = 204) =>
    /\ Relates(Key(TRAIL, parseInt(response.id)), parseInt(response.id2))
    /\ Relates(Key(TRAILHEAD, parseInt(response.id2)), parseInt(response.id))

\* C4: an assign(T, H) of the owner that follows an assign(T, H) that returned
\* 204, with no remove or delete of T or H in between (no two requests having
\* overlapped, and none of its own store calls failing), returns
\* AlreadyExists (403).
C4_SecondAssignRejected ==
  (response.op = "assign" /\ response.again /\ Claimant(response) = response.owner
     /\ hist.serial /\ ~response.failed) =>
    /\ response.code = 403
    /\ response.data = alreadyExistsError.data

\* C5: whenever remove(T, H) returns 204 (no two requests having overlapped,
\* and no store call failed), neither the stored T.trailheads holds
\* H's id nor the stored H.trails holds T's id, whatever the form of the ids
\* in the path.
C5_RemoveClearsBothSides ==
  (response.op = "remove" /\ response.code = 204 /\ hist.serial /\ failures = 0) =>
    /\ ~Relates(Key(TRAIL, parseInt(response.id)), parseInt(response.id2))
    /\ ~Relates(Key(TRAILHEAD, parseInt(response.id2)), parseInt(response.id))

\* C6: after assign(T, H) and a remove(T, H) that returned 204, a further
\* remove(T, H) of the owner (when no store call has failed) returns
\* RelationshipNotFound (403).
C6_SecondRemoveRejected ==
  (response.op = "remove" /\ response.follows = "remove"
     /\ Claimant(response) = response.owner /\ failures = 0) =>
    /\ response.code = 403
    /\ response.data = relationshipDoesNotExistError.data

\* C7: when a delete has returned 204 and all the store work it started has
\* finished (no two requests having overlapped, and no store call failed),
\* the entity is absent from the store and no stored entity of the
\* other type lists its id.
C7_DeleteCascades ==
  [][\A s \in Slots :
       (reqs[s].op = "delete" /\ reqs'[s].op = "idle" /\ hist'.serial
          /\ failures' = 0) =>
         LET type == TypeOf(reqs[s].type)
             gone == reqs[s].entity.key
         IN  /\ ~Exists(datastore', Key(type, gone))
             /\ \A k \in AllKeys :
                  (k[1] = Counterpart(type).name /\ Exists(datastore', k)) =>
                    ~Includes(datastore'[k].data[Counterpart(type).otherAttributes[1]],
                              ToStr(gone))]_vars

\* C8: after a patch that returned success (and no store call failed), the
\* stored entity holds the body's value for every required attribute the body
\* supplies and its previous value for every other one.
C8_PatchStoresBody ==
  [][(response.op = "none" /\ response'.op = "patch" /\ response'.code = 200
        /\ failures' = 0) =>
       LET type == TypeOf(response'.type)
           key == Key(type, parseInt(response'.id))
       IN  /\ Exists(datastore', key)
           /\ \A a \in Range(type.requiredAttributes) :
                datastore'[key].data[a] = IF a \in DOMAIN response'.body
                                          THEN response'.body[a]
                                          ELSE datastore[key].data[a]]_vars

\* C9: after a replace that returned success, the stored required attributes
\* equal the body's, the entity's relation array and owner are as before, and
\* every other entity is as before.
C9_ReplaceStoresBody ==
  [][(response.op = "none" /\ response'.op = "put" /\ response'.code = 200) =>
       LET type == TypeOf(response'.type)
           key == Key(type, parseInt(response'.id))
           other == type.otherAttributes[1]
       IN  /\ Exists(datastore', key)
           /\ \A a \in Range(type.requiredAttributes) :
                datastore'[key].data[a] = response'.body[a]
           /\ datastore'[key].data[other] = datastore[key].data[other]
           /\ type.protected => datastore'[key].data.userId = datastore[key].data.userId
           /\ \A j \in AllKeys \ {key} : datastore'[j] = datastore[j]]_vars

\* C10: a create the Accept gate lets through returns 400 and stores nothing
\* when a required attribute is missing from the body; otherwise (with a valid
\* claim, for a protected type) it returns 201 and stores exactly one new
\* entity, with the body's required attributes, an empty relation array and,
\* for a protected type, the claim's subject as owner.
C10_CreateStoresOne ==
  [][(response.op = "none" /\ response'.op = "post" /\ Acceptable(response')) =>
       LET type == TypeOf(response'.type)
           body == response'.body
       IN  IF ~Complete(response')
           THEN response'.code = 400 /\ datastore' = datastore
           ELSE (type.protected => Claimant(response') # "") =>
                  /\ response'.code = 201
                  /\ \E k \in AllKeys :
                       /\ k[1] = type.name
                       /\ ~Exists(datastore, k)
                       /\ Exists(datastore', k)
                       /\ \A j \in AllKeys \ {k} : datastore'[j] = datastore[j]
                       /\ \A a \in Range(type.requiredAttributes) :
                            datastore'[k].data[a] = body[a]
                       /\ datastore'[k].data[type.otherAttributes[1]] = <<>>
                       /\ type.protected =>
                            datastore'[k].data.userId = Claimant(response')]_vars

\* get, replace, patch or delete of a Trailhead under an id no entity has
OnMissingTrailhead(resp) ==
  /\ resp.type = "Trailhead"
  /\ resp.op \in {"get", "put", "patch", "delete"}
  /\ ~resp.trailhead

\* C11, as the code has it: get, replace, patch and delete of a Trailhead
\* under an id no entity has return 404 and change nothing whenever the Accept
\* header is acceptable and, for replace, the body is complete.
C11_MissingTrailhead ==
  (/\ OnMissingTrailhead(response)
   /\ Acceptable(response)
   /\ response.op = "put" => Complete(response))
  => response.code = 404 /\ ~response.wrote

\* C11 witness: a complete replace of a Trailhead that is not stored
C11_ReplaceOfMissing ==
  /\ OnMissingTrailhead(response)
  /\ response.op = "put"
  /\ Acceptable(response)
  /\ Complete(response)
  /\ response.code = 404

\* C11 as stated: get, replace, patch and delete of a Trailhead under an id
\* no entity has return 404 and change nothing.
C11_AlwaysNotFound ==
  OnMissingTrailhead(response) => response.code = 404 /\ ~response.wrote

\* C12: every request whose Accept header is neither */* nor application/json
\* receives 406, whatever its route, body, token and entity, and leaves the
\* store unchanged.
C12_AcceptGate ==
  (response.op # "none" /\ ~Acceptable(response))
  => response.code = 406 /\ ~response.wrote

\* the ops whose handlers check the body for the required attributes
BodyChecked(resp) == resp.op \in {"post", "put"}

\* the entity a request addresses is not there for its caller: a Trail of
\* another owner or no Trail, no Trailhead
Absent(resp) ==
  /\ resp.op # "post"
  /\ IF resp.type = "Trail" THEN resp.owner # Claimant(resp) ELSE ~resp.trailhead

\* the first error that applies to a request, in the order 406, 400, 401,
\* 403 or 404 (0: none applies)
FirstError(resp) ==
  IF ~Acceptable(resp) THEN 406
  ELSE IF BodyChecked(resp) /\ ~Complete(resp) THEN 400
  ELSE IF resp.type = "Trail" /\ Claimant(resp) = "" THEN 401
  ELSE IF Absent(resp) THEN IF resp.type = "Trail" THEN 403 ELSE 404
  ELSE 0

\* C13: create, get, replace, patch and delete report the first error that
\* applies in the order 406, 400, 401, 403 (Trail) or 404 (Trailhead), and
\* report 406, 400 or 401 in no other case; when no error applies, a 403 or
\* 404 comes from a store call that failed.
C13_Precedence ==
  response.op \in {"post", "get", "put", "patch", "delete"}
  => IF FirstError(response) # 0
     THEN response.code = FirstError(response)
     ELSE /\ response.code \notin {400, 401, 406}
          /\ response.code \in {403, 404} => response.failed

\* C13 witness: a replace of a Trail without a required attribute and with a
\* token that does not verify returns 400
C13_MissingBeforeToken ==
  /\ response.op = "put"
  /\ response.type = "Trail"
  /\ Acceptable(response)
  /\ ~Complete(response)
  /\ Claimant(response) = ""
  /\ response.headers.authorization.defined
  /\ response.code = 400

\* the operations that require authentication
Authenticated(resp) ==
  \/ resp.type = "Trail" /\ resp.op \in {"list", "get", "post", "put", "patch", "delete"}
  \/ resp.op \in {"assign", "remove"}

\* C14: an operation that requires authentication, with an acceptable Accept
\* header and, where the body is checked, a complete body, returns 401 with
\* the same body whenever the token is absent, empty, malformed or forged or
\* the verification call errors; no store call of the request has failed (it
\* made none) and the store is as it was.
C14_Unauthenticated ==
  (/\ Authenticated(response)
   /\ Acceptable(response)
   /\ BodyChecked(response) => Complete(response)
   /\ Claimant(response) = "")
  => /\ response.code = 401
     /\ response.data = userNotAuthenticatedError.data
     /\ ~response.failed
     /\ ~response.wrote

\* C14 witness: an assign with a good token while the identity provider
\* cannot be reached returns 401
C14_ProviderDown ==
  /\ response.op = "assign"
  /\ Acceptable(response)
  /\ response.headers.authorization.token.sig = "good"
  /\ ~response.up
  /\ response.code = 401

\* assign and remove
LinkOp(resp) == resp.op \in {"assign", "remove"}

C19_OwnerOnly ==
  [][\A k \in TrailKeys :
       (datastore[k].present /\ datastore'[k] # datastore[k])
       => \E s \in Slots :
            InFlight(s) /\ Claimant(reqs[s]) = datastore[k].data.userId]_vars

\* what get, replace, patch and delete of a Trail answer a caller who does not
\* own it, from the request alone
RefusalOf(resp) ==
  IF ~Acceptable(resp) THEN acceptTypeError
  ELSE IF resp.op = "put" /\ ~Complete(resp) THEN attributeMissingError
  ELSE forbiddenError

\* C20: the response (code and body) to get, replace, patch or delete of a
\* Trail by a verified caller who does not own it is determined by the request
\* alone, so it is the same whether a Trail of that id exists under another
\* owner or not; the request changes nothing in the store.
C20_NoExistenceLeak ==
  ByNonOwner(response)
  => /\ response.code = RefusalOf(response).code
     /\ response.data = RefusalOf(response).data
     /\ ~response.wrote

\* C20 witness: u2 is refused a patch of a Trail that u1 owns
C20_RefusedExisting ==
  /\ ByNonOwner(response)
  /\ response.op = "patch"
  /\ Claimant(response) = "u2"
  /\ response.owner = "u1"
  /\ response.code = 403

\* a page of a list, as sent
Listed(resp) == resp.op = "list" /\ resp.code = 200

\* the entities a list is about: the caller's Trails, every Trailhead, every User
InScope(resp) ==
  {k \in DOMAIN datastore :
     /\ k[1] = resp.type
     /\ datastore[k].present
     /\ resp.type = "Trail" => datastore[k].data.userId = Claimant(resp)}

Total(resp) == Cardinality(InScope(resp))

Items(resp) == IF "items" \in DOMAIN resp.data THEN resp.data.items ELSE <<>>

HasNext(resp) == "next" \in DOMAIN resp.data

C17_NextLink ==
  /\ Listed(response)
       => /\ HasNext(response) <=> response.more = "MORE_RESULTS_AFTER_LIMIT"
          /\ HasNext(response)
               => /\ SubSeq(response.data.next, 1, 3)
                       = <<URL, TypeOf(response.type).URL, "?nextPage=">>
                  /\ QueryDecode(response.data.next[4]) = response.endCursor
                  /\ \A i \in 1..Len(response.data.next[4]) :
                       response.data.next[4][i] \notin {"+", "/", "=", " "}
  /\ \A s \in Slots :
       reqs[s].op = "list" => \A l \in Followed(reqs[s]) : reqs[s].cursor = l.endCursor

\* C17 witness: a request that followed a next link is sent a page with a next
\* link of its own
C17_FollowedTwice ==
  /\ Listed(response)
  /\ response.page = 2
  /\ HasNext(response)

\* C18: a list of Trails holds only Trails of the verified caller and counts
\* all of the caller's Trails, on every page; a list of Trailheads or Users
\* is not filtered and counts every entity of the type; a first page holds
\* the first entities in scope.
C18_ListScope ==
  Listed(response)
  => /\ response.data.count = Total(response)
     /\ \A i \in 1..Len(Items(response)) :
          Key(TypeOf(response.type), parseInt(Items(response)[i].id)) \in InScope(response)
     /\ (response.page = 1 /\ ~response.failed)
          => Len(Items(response)) = Min(Total(response), RESULTS_PER_PAGE)

\* C18 witness: u1 is sent a second page of Trails while u2 owns a Trail too
C18_OwnTrailsOnly ==
  /\ Listed(response)
  /\ response.type = "Trail"
  /\ Claimant(response) = "u1"
  /\ response.page = 2
  /\ Len(Items(response)) > 0
  /\ \E k \in DOMAIN datastore :
       k[1] = "Trail" /\ datastore[k].present /\ datastore[k].data.userId = "u2"

\* baseURL + the URL segment of the type + the id the store assigned
SelfOf(type, id) == <<URL, type.URL, id>>

\* an id as the store assigns it: a positive number in decimal
StoreAssigned(id) == parseInt(id) > 0 /\ id = ToStr(parseInt(id))

\* C21: the self of every entity a response represents (a created, read,
\* replaced or patched entity, each item of a list) is the base URL, the URL
\* segment of the entity's own type and the id the store assigned to it.
C21_SelfURL ==
  /\ Listed(response)
       => \A i \in 1..Len(Items(response)) :
            /\ StoreAssigned(Items(response)[i].id)
            /\ Items(response)[i].self
                 = SelfOf(TypeOf(response.type), Items(response)[i].id)
  /\ (response.op \in {"post", "get", "put", "patch"} /\ response.code \in {200, 201})
       => /\ StoreAssigned(response.data.id)
          /\ response.data.self = SelfOf(TypeOf(response.type), response.data.id)

\* C22: a replace or patch of a Trail or Trailhead that succeeds responds
\* with status 204.
C22_UpdateNoContent ==
  (response.op \in {"put", "patch"} /\ response.code \in {200, 201, 204})
  => response.code = 204

\* the calls of the routes that authenticate nobody: get, create, replace,
\* patch, delete and list of Trailheads, and the list of Users
OpenCalls ==
  [op : {"put", "patch"}, type : {TRAILHEAD},
   id : DecimalIds(TRAILHEAD), body : GateBodies(TRAILHEAD)]
  \cup [op : {"get", "delete"}, type : {TRAILHEAD},
         id : DecimalIds(TRAILHEAD), body : {EmptyObject}]
  \cup [op : {"post"}, type : {TRAILHEAD}, id : {<<>>}, body : GateBodies(TRAILHEAD)]
  \cup [op : {"list"}, type : {TRAILHEAD, USER}, id : {<<>>}, body : {EmptyObject}]

\* the handler of an open call, up to its first store call, under `headers`
OpenCall(c, headers) ==
  \E s \in Slots :
    CASE c.op = "get" -> GetEntity(s, c.id, c.type, headers)
      [] c.op = "post" -> PostEntity(s, c.type, headers, c.body)
      [] c.op = "put" -> PutEntityLookup(s, c.id, c.type, headers, c.body)
      [] c.op = "patch" -> PatchEntityLookup(s, c.id, c.type, headers, c.body)
      [] c.op = "delete" -> DeleteEntityLookup(s, c.id, c.type, headers)
      [] OTHER -> GetEntitiesPagination(s, c.type, headers, <<>>)

\* a request or response without its Authorization header
Blind(r) == [r EXCEPT !.headers.authorization = Authorization(FALSE, "", NoToken)]

BlindAll(rs) == [s \in Slots |-> Blind(rs[s])]

\* an open call, as a request or response records it
Open(r) ==
  \/ r.type = "Trailhead" /\ r.op \in {"get", "post", "put", "patch", "delete", "list"}
  \/ r.type = "User" /\ r.op = "list"

CallOf(r) == [op |-> r.op, type |-> TypeOf(r.type), id |-> r.id, body |-> r.body]

\* without an Authorization header, the handler of the call c does in this
\* step what it does under `headers`; calls that do the same as the call
\* without the header do the same as each other
SameUnderAnyToken(c, headers) ==
  \A a \in {Authorization(FALSE, "", NoToken)} :
    \E D \in {datastore'}, N \in {nextId'}, F \in {failures'},
       R \in {Blind(response')}, Q \in {BlindAll(reqs')} :
      ENABLED (/\ OpenCall(c, [headers EXCEPT !.authorization = a])
               /\ datastore' = D
               /\ nextId' = N
               /\ failures' = F
               /\ Blind(response') = R
               /\ BlindAll(reqs') = Q)

\* C23: whatever a handler of an open call does under one Authorization
\* header (the response it sends, the change of the store, what it keeps for
\* its next steps), it does without one and so under every other, in the
\* same state and with the same Accept header and body; the steps after the
\* first take everything from what the first one kept.  (Nothing records a
\* list whose count query threw: every list call that can have taken the
\* step is compared.)
C23_TokenBlind ==
  [][issued' = issued + 1
     => IF response' # NoResponse
        THEN Open(response')
             => \A c \in {CallOf(response')}, headers \in {response'.headers} :
                  SameUnderAnyToken(c, headers)
        ELSE IF \E s \in Slots : reqs'[s].op # "idle"
        THEN \A s \in Slots :
               Open(reqs'[s])
               => \A c \in {CallOf(reqs'[s])}, headers \in {reqs'[s].headers} :
                    SameUnderAnyToken(c, headers)
        ELSE \A c \in {o \in OpenCalls : o.op = "list"}, headers \in GateHeaders :
               OpenCall(c, headers) => SameUnderAnyToken(c, headers)]_vars

\* C23 witness: a replace of a Trailhead under a forged token has changed the
\* stored Trailhead
C23_ForgedTokenReplace ==
  /\ response.op = "put"
  /\ response.type = "Trailhead"
  /\ response.headers.authorization.token.sig = "forged"
  /\ response.code = 200
  /\ response.wrote


\* the related entities a delete in flight has still to load or to update
AwaitsCascade(r) == r.op = "delete" /\ r.casPc \in {"load", "update"}

\* C24: in no state has a delete request issued the store write that removes
\* its entity, or returned 204, while one of the entity's counterparts still
\* awaits the update that clears its back-reference.
C24_CascadeBeforeDelete ==
  \A s \in Slots : AwaitsCascade(reqs[s]) => reqs[s].pc # "returned"


\* the stored relation array of the entity under `key`
Edges(ds, key) == ds[key].data[TypeOf(key[1]).otherAttributes[1]]

\* C25: the step in which a create, replace or patch request does its store
\* write changes the stored trailheads array of no Trail and the stored
\* trails array of no Trailhead, whatever requests run concurrently with it.
C25_EdgesKeptByCrud ==
  [][(response' # NoResponse /\ response'.op \in {"post", "put", "patch"}) =>
       \A k \in AllKeys :
         (Exists(datastore, k) /\ Exists(datastore', k)) =>
           Edges(datastore', k) = Edges(datastore, k)]_vars


\* C26: an assign that returns 204 with none of its store calls failed
\* leaves T's id in the stored H.trails, whatever ran concurrently with it,
\* and leaves H's id in the stored T.trailheads when no two requests have
\* overlapped: the entry of T.trailheads is lost by an interleaving only
\* (each request reads T, then writes back its whole copy).
C26_LostByOverlapOnly ==
  (response.op = "assign" /\ response.code = 204 /\ ~response.failed) =>
    LET t == Key(TRAIL, parseInt(response.id))
        h == Key(TRAILHEAD, parseInt(response.id2))
    IN  /\ Exists(datastore, h) => Relates(h, t[2])
        /\ hist.serial => Relates(t, h[2])

\* C26: two assigns of the same Trail with different Trailheads have both
\* returned 204, no store call has failed, no request is in flight, both
\* Trailheads list the Trail, and the Trail lacks one of the two Trailheads.
C26_LostUpdate ==
  /\ Quiescent
  /\ failures = 0
  /\ \E t \in 1..MaxTrails, h1, h2 \in 1..MaxTrailheads :
       /\ h1 # h2
       /\ {<<t, h1>>, <<t, h2>>} \subseteq hist.assigned
       /\ Relates(Key(TRAILHEAD, h1), t)
       /\ Relates(Key(TRAILHEAD, h2), t)
       /\ Exists(datastore, Key(TRAIL, t))
       /\ ~(Relates(Key(TRAIL, t), h1) /\ Relates(Key(TRAIL, t), h2))


\* C27: in assign and in remove, the second of the two store updates is
\* attempted only when the first one has not failed: a request goes on from
\* datastore.update(trailEntity) to datastore.update(trailheadEntity) in no
\* step in which the store rejects the first update.
C27_FirstUpdateFatal ==
  [][\A s \in Slots :
       (reqs[s].op \in {"assign", "remove"} /\ reqs[s].pc = "updateTrail"
          /\ reqs'[s].pc = "updateTrailhead") => failures' = failures]_vars


\* C28: a delete request in whose cascade the lookup or the update of a
\* counterpart has failed does not return No-Content (204).
C28_CascadeFailureShown ==
  [][\A s \in Slots :
       (reqs[s].op = "delete" /\ reqs[s].pc = "delete" /\ reqs[s].failed
          /\ reqs'[s].pc # "delete" /\ response' # NoResponse) =>
         response'.code # 204]_vars


\* the attributes a stored entity of a type has
Shape(type) ==
  Range(type.requiredAttributes) \cup Range(type.otherAttributes)
    \cup (IF type.protected THEN {"userId"} ELSE {})

\* C29: every stored Trail has name, length, difficulty, a trailheads array
\* and the userId of a subject; every stored Trailhead has name, location,
\* fee, a trails array and no owner id.
C29_StoredShape ==
  \A k \in AllKeys :
    Exists(datastore, k) =>
      LET type == TypeOf(k[1])
          data == datastore[k].data
      IN  /\ DOMAIN data = Shape(type)
          /\ DOMAIN Edges(datastore, k) = 1..Len(Edges(datastore, k))
          /\ type.protected => data.userId \in Subjects

\* C29: a Trailhead has been replaced from a body that also carries userId,
\* trails, trailheads and id, and a Trail has been created
C29_ReplacedWithExtras ==
  /\ response.op = "put" /\ response.type = "Trailhead"
  /\ ExtraKeys \subseteq DOMAIN response.body
  /\ response.code = 200 /\ response.wrote
  /\ \E k \in TrailKeys : Exists(datastore, k) /\ ~Seeded(k)


\* C30: in every reachable state no stored Trail's trailheads array and no
\* stored Trailhead's trails array holds the same id more than once.
C30_NoDuplicateEdges ==
  \A k \in AllKeys :
    Exists(datastore, k) =>
      \A i, j \in 1..Len(Edges(datastore, k)) :
        Edges(datastore, k)[i] = Edges(datastore, k)[j] => i = j


\* the ids in the relation array of the stored entity under `key` all name
\* stored entities of the other type
Grounded(ds, key) ==
  \A i \in 1..Len(Edges(ds, key)) :
    Exists(ds, Key(Counterpart(TypeOf(key[1])), parseInt(Edges(ds, key)[i])))

\* C31: whenever no request is in flight and no store call has failed, every
\* id in a stored Trail's trailheads array names a stored Trailhead and every
\* id in a stored Trailhead's trails array names a stored Trail.
C31_NoDanglingEdges ==
  (Quiescent /\ failures = 0) =>
    \A k \in AllKeys : Exists(datastore, k) => Grounded(datastore, k)


\* C32: the step in which a patch writes its entity back leaves every stored
\* attribute of that entity that the body does not name at the value the
\* store holds for it just before the write.
C32_PatchKeepsUnnamed ==
  [][(response' # NoResponse /\ response'.op = "patch" /\ response'.code = 200) =>
       LET k == Key(TypeOf(response'.type), parseInt(response'.id))
       IN  (Exists(datastore, k) /\ Exists(datastore', k)) =>
             \A a \in DOMAIN datastore[k].data \ DOMAIN response'.body :
               /\ a \in DOMAIN datastore'[k].data
               /\ datastore'[k].data[a] = datastore[k].data[a]]_vars


\* C33: no handler ends without a result: the step that receives a request
\* either returns its response or leaves the request in flight, awaiting a
\* store call (and every later step of a request in flight does one or the
\* other as well), whatever store call fails.
C33_EveryRequestAnswered ==
  [][issued' = issued + 1 =>
       \/ response' # NoResponse
       \/ \E s \in Slots : ~InFlight(s) /\ reqs'[s].op # "idle"]_vars


\* the operations that look one entity up by the id of the path
LookupOps == {"get", "put", "patch", "delete"}

\* C34: a get, replace, patch or delete whose lookup the store rejects
\* returns at once, with Forbidden (403) for a Trail and NotFound (404) for a
\* Trailhead, as for an absent entity, and writes nothing to the store.
C34_LookupErrorAsAbsent ==
  [][(issued' = issued + 1 /\ failures' # failures) =>
       /\ \A s \in Slots : ~InFlight(s) => reqs'[s].op \notin LookupOps
       /\ response'.op \in LookupOps =>
            /\ response'.code = IF TypeOf(response'.type).protected THEN 403 ELSE 404
            /\ response'.data = IF TypeOf(response'.type).protected
                                THEN forbiddenError.data ELSE doesNotExistError.data
            /\ datastore' = datastore]_vars

\* C34: the replace of a stored Trail by its owner is refused with 403
\* because the store rejected the lookup
C34_OwnerRefused ==
  /\ response.op = "put" /\ response.type = "Trail"
  /\ response.owner # "" /\ response.owner = Claimant(response)
  /\ response.failed
  /\ response.code = 403


\* the codes of the error results
ErrorCodes == {400, 401, 403, 404, 405, 406}

\* C35: a request that returns an error code has written nothing to the
\* store, neither in the step that returns nor in any step before it.
C35_ErrorWritesNothing ==
  [][(response' # NoResponse /\ response'.code \in ErrorCodes) =>
       /\ datastore' = datastore
       /\ ~response'.wrote]_vars

\* C35: an assign by the owner has read the Trail and the Trailhead and
\* returned AlreadyExists
C35_RefusedAfterReads ==
  /\ response.op = "assign"
  /\ response.code = 403
  /\ response.data = alreadyExistsError.data


\* C36: when a create returns 201, its save has not failed, and the store
\* holds, under the id of the response, an entity of the type with the
\* attribute values of the response.
C36_CreatedIsStored ==
  (response.op = "post" /\ response.code = 201) =>
    LET type == TypeOf(response.type)
        k == Key(type, parseInt(response.data.id))
    IN  /\ ~response.failed
        /\ Exists(datastore, k)
        /\ \A a \in DOMAIN datastore[k].data : datastore[k].data[a] = response.data[a]


----------------------------------------------------------------------------
(* The OAuth callback and the User roster *)

MaxUsers == 3           \* User ids the store assigns

UserKeys == {Key(USER, i) : i \in 1..MaxUsers}

\* what the People API returns for the subject of the tokens (names[0])
getUserData(sub) == [givenName |-> "g", familyName |-> "f"]

\* the entity the callback saves for a subject it has not found
NewUser(sub) ==
  [firstName |-> getUserData(sub).givenName,
   lastName |-> getUserData(sub).familyName,
   userId |-> sub]

\* what the callback renders into user.html
UserPage(sub) ==
  [firstName |-> getUserData(sub).givenName,
   lastName |-> getUserData(sub).familyName,
   jwt |-> IdToken(sub, "good"),
   userID |-> sub]

\* app.get('/user') up to the query for a stored User of the subject; Google
\* has redirected with a code for the subject `sub`.  `up`: getToken answers
\* (otherwise the destructuring of its result throws); `people`: the People
\* API answers (otherwise userData is undefined and userData.names throws
\* after the query); a query that fails leaves results undefined, and
\* results[0] throws.  A throw leaves the request without a response.
UserCallbackQuery(s, sub) ==
  /\ Receive(s)
  /\ \E up, people, ok \in BOOLEAN :
       LET r == [Request("user", USER, <<>>, <<>>, NoHeaders, EmptyObject, up)
                   EXCEPT !.sub = sub]
           results == createQuery(datastore, USER, sub)
       IN  /\ ~up => (ok /\ people)
           /\ StoreCall(ok)
           /\ UNCHANGED <<datastore, nextId>>
           /\ IF ~up \/ ~ok \/ ~people THEN Throw(r)
              ELSE IF Len(results) = 0 THEN Suspend(s, [r EXCEPT !.pc = "save"])
              ELSE Return(r, sub, Result(200, UserPage(sub)))

\* app.get('/user') from datastore.save on: the save under a new key (a
\* failure is logged), and the page
UserCallbackSave(s) ==
  /\ Resume(s, {"user"}, "save")
  /\ \E ok \in BOOLEAN :
       LET r == reqs[s]
           id == nextId[USER.name] + 1
       IN  /\ ok => id <= MaxUsers
           /\ StoreCall(ok)
           /\ datastore' = IF ok THEN Save(datastore, USER, id, NewUser(r.sub))
                           ELSE datastore
           /\ nextId' = IF ok THEN [nextId EXCEPT ![USER.name] = id] ELSE nextId
           /\ Finish(s, Result(200, UserPage(r.sub)))
           /\ reqs' = [reqs EXCEPT ![s] = Idle]
           /\ UNCHANGED issued

\* the server starts on a store that holds no User yet
InitUsers ==
  /\ datastore = [k \in AllKeys \cup UserKeys |->
                    IF Seeded(k)
                    THEN Doc(TRUE, NewEntity(TypeOf(k[1]), "u1", SeedBody(TypeOf(k[1]))))
                    ELSE NoDoc]
  /\ nextId = [n \in {"Trail", "Trailhead", "User"} |->
                 IF n = "Trail" THEN InitTrails
                 ELSE IF n = "Trailhead" THEN InitTrailheads ELSE 0]
  /\ reqs = [s \in Slots |-> Idle]
  /\ issued = 0
  /\ failures = 0
  /\ response = NoResponse
  /\ hist = NoHist

NextUsers ==
  \/ \E s \in Slots, sub \in Subjects : UserCallbackQuery(s, sub)
  \/ \E s \in Slots : UserCallbackSave(s)
  \/ \E s \in Slots, headers \in ListHeaders :
       GetEntitiesPagination(s, USER, headers, <<>>)
  \/ \E s \in Slots : GetEntitiesPage(s)
  \/ Send

\* OAuth callbacks of the two subjects and lists of the Users, handled
\* concurrently
SpecUsers == InitUsers /\ [][NextUsers]_vars

\* C37: in every reachable state the store holds at most one User entity
\* per subject id.
C37_OneUserPerSubject ==
  \A j, k \in UserKeys :
    (datastore[j].present /\ datastore[k].present
       /\ datastore[j].data.userId = datastore[k].data.userId) => j = k


\* the ids of the entities a list is about, in the order of the store
Matching(resp) == Sorted({k[2] : k \in InScope(resp)})

\* C38: page k of a walk (the list request without cursor, then the next
\* link of each page) holds at most RESULTS_PER_PAGE items, namely the
\* matching entities from number RESULTS_PER_PAGE * (k - 1) + 1 on, in order;
\* a page without next link ends the walk only when every matching entity
\* has been sent, and no walk is longer than the pages the entities fill
\* plus one.
C38_PageWalk ==
  (Listed(response) /\ response.page > 0) =>
    LET ids == Matching(response)
        from == RESULTS_PER_PAGE * (response.page - 1)
        upto == Min(from + RESULTS_PER_PAGE, Len(ids))
    IN  /\ Len(Items(response)) <= RESULTS_PER_PAGE
        /\ response.page <= (Len(ids) \div RESULTS_PER_PAGE) + 1
        /\ [i \in 1..Len(Items(response)) |-> parseInt(Items(response)[i].id)]
             = SubSeq(ids, from + 1, upto)
        /\ ~HasNext(response) => upto = Len(ids)

\* C38, for the pages whose page query the store has answered
C38_PageWalkAnswered == ~response.failed => C38_PageWalk


====
